---- MODULE Spec2Model ----
(***************************************************************************)
(* Fork/cache subsystem of DPostBackend: the URL parser, the repository    *)
(* cache (app/cache.py over the repository_cache table), fork_repository   *)
(* and delete_repository (app/github_client.py), run by concurrent         *)
(* requests.  Every await in the source is an interleaving point.          *)
(***************************************************************************)
EXTENDS Integers, Sequences, FiniteSets, TLC

(* ---------------------------------------------------------------------- *)
(* Python values.  A value is a record with a tag t; None is one value,    *)
(* whether it comes from Optional[str], from a JSON null or from a missing *)
(* dict key.  Strings that the code takes apart are sequences of           *)
(* characters.                                                             *)
(* ---------------------------------------------------------------------- *)
PyNone == [t |-> "none"]

PyStr(s) == [t |-> "str", s |-> s]

Truthy(v) == CASE v.t = "none" -> FALSE
               [] v.t = "str" -> Len(v.s) > 0
               [] v.t = "dict" -> DOMAIN v # {"t"}
               [] OTHER -> TRUE

Whitespace == {" ", "\t", "\n"}

RECURSIVE LStrip(_)
LStrip(s) == IF s # <<>> /\ Head(s) \in Whitespace THEN LStrip(Tail(s)) ELSE s

RECURSIVE RStrip(_)
RStrip(s) ==
  IF s # <<>> /\ s[Len(s)] \in Whitespace THEN RStrip(SubSeq(s, 1, Len(s) - 1)) ELSE s

Strip(s) == RStrip(LStrip(s))

Lower(c) == CASE c = "G" -> "g" [] c = "I" -> "i" [] c = "T" -> "t"
              [] c = "A" -> "a" [] c = "W" -> "w" [] OTHER -> c

LowerStr(s) == [i \in 1..Len(s) |-> Lower(s[i])]

StartsWith(s, pre) == Len(s) >= Len(pre) /\ SubSeq(s, 1, Len(pre)) = pre

EndsWith(s, suf) == Len(s) >= Len(suf) /\ SubSeq(s, Len(s) - Len(suf) + 1, Len(s)) = suf

Drop(s, n) == SubSeq(s, n + 1, Len(s))

(* The characters of the regular expression class [\w.-] that occur in the *)
(* references of this model.                                                *)
WordChars ==
  {"a", "c", "m", "e", "w", "i", "d", "g", "t", "h", "u", "b", "l", "o", "p", "s",
   "G", "I", "T", "A", "W", "r", "1", "_", ".", "-"}

h_t_t_p == <<"h", "t", "t", "p">>
SchemeSep == <<":", "/", "/">>
github_com == <<"g", "i", "t", "h", "u", "b", ".", "c", "o", "m">>
gitlab_com == <<"g", "i", "t", "l", "a", "b", ".", "c", "o", "m">>
git_at == <<"g", "i", "t", "@">>
dot_git == <<".", "g", "i", "t">>
acme == <<"a", "c", "m", "e">>
widget == <<"w", "i", "d", "g", "e", "t">>
org1 == <<"o", "r", "g", "1">>
Slash == <<"/">>

SshPrefix == git_at \o github_com \o <<":">>
HttpsPrefix == h_t_t_p \o <<"s">> \o SchemeSep \o github_com \o Slash
HttpPrefix == h_t_t_p \o SchemeSep \o github_com \o Slash

SlashPositions(s) == {i \in 1..Len(s) : s[i] = "/"}

AllWord(s) == Len(s) > 0 /\ \A i \in 1..Len(s) : s[i] \in WordChars

(* Mutant of StripGitSuffix: the name is kept as the expression matched it. *)
StripGitSuffixNever(repo) == repo

(* repo.lower().endswith(".git") -> repo[:-4] *)
StripGitSuffix(repo) ==
  IF EndsWith(LowerStr(repo), dot_git) THEN SubSeq(repo, 1, Len(repo) - 4) ELSE repo

NotParsed == [ok |-> FALSE]

(* (?P<owner>[\w.-]+)/(?P<repo>[\w.-]+)(?:\.git)?$ and, with slashOk, a     *)
(* final /? : the class excludes "/", so the path holds exactly one "/"     *)
(* between two non-empty runs of the class; the greedy repo group takes the *)
(* whole second run, a ".git" included, and the code strips it afterwards.  *)
MatchPath(rest, slashOk) ==
  LET path == IF slashOk /\ Len(rest) > 0 /\ rest[Len(rest)] = "/"
              THEN SubSeq(rest, 1, Len(rest) - 1) ELSE rest
      cuts == SlashPositions(path)
  IN IF Cardinality(cuts) # 1 THEN NotParsed
     ELSE LET i == CHOOSE j \in cuts : TRUE
              owner == SubSeq(path, 1, i - 1)
              repo == SubSeq(path, i + 1, Len(path))
          IN IF AllWord(owner) /\ AllWord(repo)
             THEN [ok |-> TRUE, owner |-> owner, repo |-> StripGitSuffix(repo)]
             ELSE NotParsed

parse_repo_url(repo_url) ==
  LET url == Strip(repo_url)
  IN IF StartsWith(url, SshPrefix) /\ MatchPath(Drop(url, Len(SshPrefix)), FALSE).ok
     THEN MatchPath(Drop(url, Len(SshPrefix)), FALSE)
     ELSE IF StartsWith(url, HttpsPrefix) THEN MatchPath(Drop(url, Len(HttpsPrefix)), TRUE)
     ELSE IF StartsWith(url, HttpPrefix) THEN MatchPath(Drop(url, Len(HttpPrefix)), TRUE)
     ELSE NotParsed

(* ---------------------------------------------------------------------- *)
(* JSON.  A response text is an opaque string; json.loads and json.dumps   *)
(* are tables between texts and values (json.dumps writes ": " after a    *)
(* key, so a compact remote text does not come back as it was sent).       *)
(* ---------------------------------------------------------------------- *)
T_msg == "{\"message\":\"already forked\"}"
T_id == "{\"id\":1}"
T_null == "null"
T_html == "<html>"

V_msg == [t |-> "dict", message |-> PyStr("already forked")]
V_id == [t |-> "dict", id |-> [t |-> "int", n |-> 1]]
V_placeholder == [t |-> "dict", message |-> PyStr("<non-json-response>")]

D_msg == "{\"message\": \"already forked\"}"
D_id == "{\"id\": 1}"
D_placeholder == "{\"message\": \"<non-json-response>\"}"

JsonFail == [ok |-> FALSE]

JsonLoads(text) ==
  CASE text \in {T_msg, D_msg} -> [ok |-> TRUE, v |-> V_msg]
    [] text \in {T_id, D_id} -> [ok |-> TRUE, v |-> V_id]
    [] text = T_null -> [ok |-> TRUE, v |-> PyNone]
    [] text = D_placeholder -> [ok |-> TRUE, v |-> V_placeholder]
    [] OTHER -> JsonFail

JsonDumps(v) ==
  CASE v = V_msg -> D_msg
    [] v = V_id -> D_id
    [] v = PyNone -> T_null
    [] v = V_placeholder -> D_placeholder

(* dict.get(key): None for a missing key; a value that is no dict has no   *)
(* attribute get.                                                          *)
HasGet(v) == v.t = "dict"

DictGet(v, key, default) == IF key \in DOMAIN v THEN v[key] ELSE default

(* str() as an f-string applies it *)
Format(v) == CASE v.t = "none" -> "None" [] v.t = "str" -> v.s [] OTHER -> "?"

(* ---------------------------------------------------------------------- *)
(* The repository_cache table: a set of rows.  id is the rowid primary     *)
(* key; uq_repository_org is a UNIQUE constraint over (repo_full_name,     *)
(* org), and SQL compares NULLs as distinct in a UNIQUE constraint.        *)
(* ---------------------------------------------------------------------- *)
Row(id, repo_full_name, org, response_json) ==
  [id |-> id, repo_full_name |-> repo_full_name, org |-> org,
   response_json |-> response_json]

(* RepositoryCache.org == org: IS NULL for None, = for a string *)
OrgMatches(rowOrg, org) == rowOrg = org

(* select(RepositoryCache).where(repo_full_name == ..., org == ...) *)
Select(rows, repo_full_name, org) ==
  {r \in rows : r.repo_full_name = repo_full_name /\ OrgMatches(r.org, org)}

(* UniqueConstraint("repo_full_name", "org"): a NULL org never collides *)
UniqueViolation(rows, repo_full_name, org) ==
  org # PyNone /\ \E r \in rows : r.repo_full_name = repo_full_name /\ r.org = org

(* Column(Integer, primary_key=True, autoincrement=True) on SQLite, the     *)
(* default store, is an INTEGER PRIMARY KEY without the AUTOINCREMENT       *)
(* keyword: a new row gets one more than the largest rowid in the table, so *)
(* the id of a deleted last row is given out again.                         *)
NextId(rows) == IF rows = {} THEN 1 ELSE 1 + CHOOSE m \in {r.id : r \in rows} :
                                              \A r \in rows : r.id <= m

NoEntry == [id |-> 0]

(* created_at and updated_at.  Times are compared, never read: time t is    *)
(* written as a number, and datetime.utcnow() is later than every time      *)
(* already written into the table.                                          *)
Times(rows) == {r.created_at : r \in rows} \cup {r.updated_at : r \in rows}

utcnow(rows) == IF rows = {} THEN 1
                ELSE 1 + CHOOSE m \in Times(rows) : \A t \in Times(rows) : t <= m

(* A new row: both columns take their default, datetime.utcnow. *)
Stamped(row, now) == row @@ [created_at |-> now, updated_at |-> now]

(* ---------------------------------------------------------------------- *)
(* Inputs of the model.                                                    *)
(* ---------------------------------------------------------------------- *)
MaxCalls == 2

Procs == {1, 2}

RefSsh == SshPrefix \o acme \o Slash \o widget \o dot_git
RefOtherHost == h_t_t_p \o <<"s">> \o SchemeSep \o gitlab_com \o Slash \o acme \o Slash \o widget

Refs == {RefSsh, RefOtherHost}

(* ForkRequest.repo_url is a pydantic HttpUrl: create_fork is handed URLs.  *)
RefHttps == HttpsPrefix \o acme \o Slash \o widget

HttpRefs == {RefHttps, RefOtherHost}

ForkOrgs == {PyNone, PyStr(<<>>), PyStr(<<" ">>), PyStr(org1)}

acme_widget == acme \o Slash \o widget

CacheRepos == {acme_widget}
CacheOrgs == {PyNone, PyStr(org1)}
CachePayloads == {V_msg, V_id}

ForkStatuses == {202, 400}
DeleteStatuses == {200, 204, 400}
Texts == {T_msg, T_id, T_null, T_html}
TransportErrors == {"TimeoutException", "ConnectError"}
Pats == {"", "ghp_token"}

(* The table lives in a file (sqlite:///./data/cache.db) that outlasts the  *)
(* process: the program starts on an empty table or on one that an earlier  *)
(* run left behind.                                                         *)
InitTables == {{}, {Stamped(Row(1, acme_widget, PyNone, D_id), 1)}}

(* ---------------------------------------------------------------------- *)
(* State.                                                                  *)
(* ---------------------------------------------------------------------- *)
VARIABLES
  rows,        \* the repository_cache table
  github_pat,  \* os.getenv("GITHUB_PAT") or ""
  call,        \* per request slot: the call in flight, or Idle
  done,        \* the call that has just ended, with its result; NoDone otherwise
  budget       \* calls that may still start

vars == <<rows, github_pat, call, done, budget>>

NoResult == [kind |-> "none"]
Return(v) == [kind |-> "return", value |-> v]
Raise(exc) == [kind |-> "raise", exc |-> exc]
RaiseStatus(status, detail) ==
  [kind |-> "raise", exc |-> "HTTPStatusError", status_code |-> status, detail |-> detail]
PyBool(b) == [t |-> "bool", b |-> b]

Idle == [pc |-> "idle"]
NoDone == [pc |-> "none"]
NoLoc == [none |-> TRUE]

(* A call as it starts.  remote_calls counts the HTTP requests it issues,   *)
(* cache_reads its SELECTs, cache_writes the statements it commits,         *)
(* pat_reads its calls of get_github_pat.                                   *)
NewCall(name, a) ==
  [pc |-> "start", op |-> name, args |-> a, loc |-> NoLoc,
   remote_calls |-> 0, cache_reads |-> 0, cache_writes |-> 0, pat_reads |-> 0]

(* The outcome of a step of a call: suspended at an await, or ended. *)
Await(c, at) == [c |-> c, at |-> at, r |-> NoResult]
End(c, r) == [c |-> c, at |-> "done", r |-> r]

(* app/main.py: what create_fork answers for the outcome of its             *)
(* fork_repository call.  ValueError is the one exception of the first      *)
(* except clause; every other exception reaches the second.                 *)
create_fork_all_upstream(r) ==
  IF r.kind = "return" THEN [status_code |-> 200, status |-> "ok", data |-> r.value]
  ELSE [status_code |-> 502]

create_fork_response(r) ==
  IF r.kind = "return" THEN [status_code |-> 200, status |-> "ok", data |-> r.value]
  ELSE IF r.exc = "ValueError" THEN [status_code |-> 400]
  ELSE [status_code |-> 502]

(* A call made by the route handler carries the handler's name. *)
ViaHandler(c) == "handler" \in DOMAIN c.args

Apply(p, o) ==
  IF o.at = "done"
  THEN /\ call' = [call EXCEPT ![p] = Idle]
       /\ done' = IF ViaHandler(o.c)
                  THEN [o.c EXCEPT !.pc = "done"]
                         @@ [result |-> o.r, response |-> create_fork_response(o.r)]
                  ELSE [o.c EXCEPT !.pc = "done"] @@ [result |-> o.r]
  ELSE /\ call' = [call EXCEPT ![p] = [o.c EXCEPT !.pc = o.at]]
       /\ done' = NoDone

(* A request arrives, takes the first free slot and runs to its first       *)
(* await or to its end.                                                     *)
Begin(p, o) ==
  /\ call[p] = Idle
  /\ \A q \in Procs : q < p => call[q] # Idle
  /\ budget > 0
  /\ budget' = budget - 1
  /\ Apply(p, o)

Init ==
  /\ rows \in InitTables
  /\ github_pat \in Pats
  /\ call = [p \in Procs |-> Idle]
  /\ done = NoDone
  /\ budget = MaxCalls

(* ---------------------------------------------------------------------- *)
(* app/cache.py                                                            *)
(* ---------------------------------------------------------------------- *)
(* scalar_one_or_none() *)
ScalarOneOrNone(sel) ==
  IF Cardinality(sel) > 1 THEN Raise("MultipleResultsFound")
  ELSE IF sel = {} THEN Return(NoEntry)
  ELSE Return(CHOOSE r \in sel : TRUE)

(* _get: None when no row matches, json.loads(result.response_json) else *)
get_cached_response(table, repo_full_name, org) ==
  LET found == ScalarOneOrNone(Select(table, repo_full_name, org))
  IN IF found.kind = "raise" THEN found
     ELSE IF found.value = NoEntry THEN Return(PyNone)
     ELSE Return(JsonLoads(found.value.response_json).v)

(* _check *)
repository_exists(table, repo_full_name, org) ==
  LET found == ScalarOneOrNone(Select(table, repo_full_name, org))
  IN IF found.kind = "raise" THEN found ELSE Return(PyBool(found.value # NoEntry))

(* upsert_cached_response up to the SELECT of _upsert: json.dumps, then the *)
(* session loads the entry.  The commit is a later step of the worker       *)
(* thread; other sessions run in between.                                   *)
upsert_select(c, table, repo_full_name, org, payload) ==
  LET found == ScalarOneOrNone(Select(table, repo_full_name, org))
      u == [repo_full_name |-> repo_full_name, org |-> org, payload |-> payload,
            data |-> JsonDumps(payload)]
      c1 == [c EXCEPT !.cache_reads = @ + 1]
  IN IF found.kind = "raise"
     THEN End([c1 EXCEPT !.loc = [upsert |-> u] @@ @], found)
     ELSE Await([c1 EXCEPT !.loc = [upsert |-> u @@ [entry |-> found.value]] @@ @],
                "upsert_commit")

(* What the call that ran the upsert returns: fork_repository returns body, *)
(* upsert_cached_response returns None.                                     *)
UpsertReturn(c) == IF c.op = "fork" THEN Return(c.loc.upsert.payload) ELSE Return(PyNone)

(* The rest of _upsert: entry.response_json = data or session.add(entry),   *)
(* then session.commit().  An attribute set to the value it was loaded with *)
(* is no change and the flush emits no UPDATE; an UPDATE is by primary key, *)
(* sets updated_at (onupdate) with it and raises StaleDataError when it     *)
(* matches no row; an INSERT is checked against uq_repository_org.  The     *)
(* outcome and the table afterwards.                                        *)
upsert_commit(c, table) ==
  LET u == c.loc.upsert
      wrote == [c EXCEPT !.cache_writes = @ + 1]
  IN IF u.entry # NoEntry
     THEN IF u.data = u.entry.response_json
          THEN [o |-> End(c, UpsertReturn(c)), rows |-> table]
          ELSE IF \A r \in table : r.id # u.entry.id
          THEN [o |-> End(c, Raise("StaleDataError")), rows |-> table]
          ELSE [o |-> End(wrote, UpsertReturn(c)),
                rows |-> {IF r.id = u.entry.id
                          THEN [r EXCEPT !.response_json = u.data,
                                         !.updated_at = utcnow(table)]
                          ELSE r : r \in table}]
     ELSE IF UniqueViolation(table, u.repo_full_name, u.org)
          THEN [o |-> End(c, Raise("IntegrityError")), rows |-> table]
          ELSE [o |-> End(wrote, UpsertReturn(c)),
                rows |-> table \cup {Stamped(Row(NextId(table), u.repo_full_name, u.org,
                                                  u.data),
                                              utcnow(table))}]

(* delete_cached_response up to the SELECT of _delete *)
delete_select(c, table, repo_full_name, org) ==
  LET found == ScalarOneOrNone(Select(table, repo_full_name, org))
      c1 == [c EXCEPT !.cache_reads = @ + 1]
  IN IF found.kind = "raise" THEN End(c1, found)
     ELSE IF found.value = NoEntry THEN End(c1, Return(PyBool(FALSE)))
     ELSE Await([c1 EXCEPT !.loc = [entry |-> found.value]], "delete_commit")

(* The rest of _delete: session.delete(entry); session.commit(); return     *)
(* True.  The DELETE is by primary key; one that matches no row is only     *)
(* warned about.                                                            *)
delete_commit(c, table) ==
  LET left == {r \in table : r.id # c.loc.entry.id}
  IN [o |-> End([c EXCEPT !.cache_writes = IF left # table THEN @ + 1 ELSE @],
                Return(PyBool(TRUE))),
      rows |-> left]

(* get_cached_response called on its own *)
CacheGet(p, repo_full_name, org) ==
  /\ Begin(p, End([NewCall("get", [repo_full_name |-> repo_full_name, org |-> org])
                     EXCEPT !.cache_reads = 1],
                  get_cached_response(rows, repo_full_name, org)))
  /\ UNCHANGED <<rows, github_pat>>

(* repository_exists called on its own *)
CacheExists(p, repo_full_name, org) ==
  /\ Begin(p, End([NewCall("exists", [repo_full_name |-> repo_full_name, org |-> org])
                     EXCEPT !.cache_reads = 1],
                  repository_exists(rows, repo_full_name, org)))
  /\ UNCHANGED <<rows, github_pat>>

(* upsert_cached_response called on its own *)
StartUpsert(p, repo_full_name, org, payload) ==
  /\ Begin(p, upsert_select(NewCall("upsert", [repo_full_name |-> repo_full_name,
                                               org |-> org, payload |-> payload]),
                            rows, repo_full_name, org, payload))
  /\ UNCHANGED <<rows, github_pat>>

(* The worker thread of an upsert commits. *)
UpsertCommit(p) ==
  /\ call[p].pc = "upsert_commit"
  /\ Apply(p, upsert_commit(call[p], rows).o)
  /\ rows' = upsert_commit(call[p], rows).rows
  /\ UNCHANGED <<github_pat, budget>>

(* delete_cached_response called on its own *)
StartCacheDelete(p, repo_full_name, org) ==
  /\ Begin(p, delete_select(NewCall("delete", [repo_full_name |-> repo_full_name,
                                               org |-> org]),
                            rows, repo_full_name, org))
  /\ UNCHANGED <<rows, github_pat>>

(* The worker thread of a delete commits. *)
DeleteCommit(p) ==
  /\ call[p].pc = "delete_commit"
  /\ Apply(p, delete_commit(call[p], rows).o)
  /\ rows' = delete_commit(call[p], rows).rows
  /\ UNCHANGED <<github_pat, budget>>

(* ---------------------------------------------------------------------- *)
(* app/github_client.py                                                    *)
(* ---------------------------------------------------------------------- *)
(* org = str(org).strip() if org else None *)
NormalizeOrg(org) == IF Truthy(org) THEN PyStr(Strip(org.s)) ELSE PyNone

(* payload = {}; if org: payload["organization"] = org; json=payload or None *)
ForkRequestJson(org) == IF Truthy(org) THEN [t |-> "dict", organization |-> org] ELSE PyNone

(* response.status_code >= 400 *)
IsErrorStatus(status) == status >= 400

(* try: err_json = response.json() / except: err_json = {"message": response.text} *)
ErrJson(text) ==
  IF JsonLoads(text).ok THEN JsonLoads(text).v ELSE [t |-> "dict", message |-> PyStr(text)]

(* raise httpx.HTTPStatusError(message=f"GitHub API error {status}:          *)
(* {err_json.get('message'[, default])}", response=response)                *)
ErrorOutcome(status, text, default) ==
  IF HasGet(ErrJson(text))
  THEN RaiseStatus(status, Format(DictGet(ErrJson(text), "message", default)))
  ELSE Raise("AttributeError")

(* try: body = response.json() / except: body = {"message": "<non-json-response>"} *)
SuccessBody(text) == IF JsonLoads(text).ok THEN JsonLoads(text).v ELSE V_placeholder

(* if cached is not None: return cached *)
IsCacheHit(cached) == cached # PyNone

(* Mutant of WritesCache: every successful fork is cached. *)
WritesCacheAlways(use_cache, status) == ~IsErrorStatus(status)

(* if use_cache: await upsert_cached_response(repo_full_name, org, body) *)
WritesCache(use_cache, status) == use_cache /\ ~IsErrorStatus(status)

(* Mutant of fork_request: single flight, a call finding a request for its  *)
(* key in flight does not issue a second one.                               *)
fork_request_single_flight(c, pat) ==
  LET c1 == [c EXCEPT !.pat_reads = @ + 1]
      request == [method |-> "POST", path |-> <<"repos", c.loc.owner, c.loc.repo, "forks">>,
                  json |-> ForkRequestJson(c.loc.org)]
  IN IF pat = "" THEN End(c1, Raise("RuntimeError"))
     ELSE IF \E q \in Procs : /\ call[q].pc = "fork_http"
                               /\ call[q].loc.repo_full_name = c.loc.repo_full_name
                               /\ call[q].loc.org = c.loc.org
     THEN End(c1, Raise("RequestInFlight"))
     ELSE Await([c1 EXCEPT !.remote_calls = @ + 1, !.loc = [request |-> request] @@ @],
                "fork_http")

(* get_github_pat() and the POST: the call has missed the cache or does     *)
(* not use it.                                                              *)
fork_request(c, pat) ==
  LET c1 == [c EXCEPT !.pat_reads = @ + 1]
      request == [method |-> "POST", path |-> <<"repos", c.loc.owner, c.loc.repo, "forks">>,
                  json |-> ForkRequestJson(c.loc.org)]
  IN IF pat = "" THEN End(c1, Raise("RuntimeError"))
     ELSE Await([c1 EXCEPT !.remote_calls = @ + 1, !.loc = [request |-> request] @@ @],
                "fork_http")

(* Mutant of fork_lookup: the credential is resolved before the lookup. *)
fork_lookup_pat_first(c, table, pat) ==
  LET cached == get_cached_response(table, c.loc.repo_full_name, c.loc.org)
      c1 == [c EXCEPT !.cache_reads = @ + 1]
  IN IF pat = "" THEN End([c EXCEPT !.pat_reads = @ + 1], Raise("RuntimeError"))
     ELSE IF cached.kind = "raise" THEN End(c1, cached)
     ELSE IF IsCacheHit(cached.value) THEN End(c1, cached)
     ELSE fork_request(c1, pat)

(* The cache lookup of fork_repository and what follows it without an await *)
fork_lookup(c, table, pat) ==
  LET cached == get_cached_response(table, c.loc.repo_full_name, c.loc.org)
      c1 == [c EXCEPT !.cache_reads = @ + 1]
  IN IF cached.kind = "raise" THEN End(c1, cached)
     ELSE IF IsCacheHit(cached.value) THEN End(c1, cached)
     ELSE fork_request(c1, pat)

(* Mutant of fork_repository: the credential is resolved before the        *)
(* reference is parsed.                                                     *)
fork_repository_pat_first(table, pat, repo_url, org, use_cache) ==
  LET c == [NewCall("fork", [repo_url |-> repo_url, org |-> org, use_cache |-> use_cache])
              EXCEPT !.pat_reads = 1]
      parsed == parse_repo_url(Strip(repo_url))
      c1 == [c EXCEPT !.pat_reads = 0,
                      !.loc = [owner |-> parsed.owner, repo |-> parsed.repo,
                               repo_full_name |-> parsed.owner \o Slash \o parsed.repo,
                               org |-> NormalizeOrg(org)]]
  IN IF pat = "" THEN End(c, Raise("RuntimeError"))
     ELSE IF ~parsed.ok THEN End(c, Raise("ValueError"))
     ELSE IF use_cache THEN fork_lookup(c1, table, pat)
     ELSE fork_request(c1, pat)

(* fork_repository up to its first remote request: normalisation, parsing,  *)
(* the cache lookup, the credential, the POST.                              *)
fork_repository(table, pat, repo_url, org, use_cache) ==
  LET c == NewCall("fork", [repo_url |-> repo_url, org |-> org, use_cache |-> use_cache])
      parsed == parse_repo_url(Strip(repo_url))
      c1 == [c EXCEPT !.loc = [owner |-> parsed.owner, repo |-> parsed.repo,
                               repo_full_name |-> parsed.owner \o Slash \o parsed.repo,
                               org |-> NormalizeOrg(org)]]
  IN IF ~parsed.ok THEN End(c, Raise("ValueError"))
     ELSE IF use_cache THEN fork_lookup(c1, table, pat)
     ELSE fork_request(c1, pat)

(* Mutant of fork_response: the cache is written before the status is      *)
(* looked at.                                                               *)
fork_response_writes_first(c, table, status, text) ==
  LET c1 == [c EXCEPT !.loc = [status |-> status, text |-> text] @@ @]
  IN IF c.args.use_cache
     THEN upsert_select(c1, table, c.loc.repo_full_name, c.loc.org, SuccessBody(text))
     ELSE IF IsErrorStatus(status) THEN End(c1, ErrorOutcome(status, text, PyNone))
     ELSE End(c1, Return(SuccessBody(text)))

(* The POST is answered: the status check, the body, the cache write. *)
fork_response(c, table, status, text) ==
  LET c1 == [c EXCEPT !.loc = [status |-> status, text |-> text] @@ @]
  IN IF IsErrorStatus(status) THEN End(c1, ErrorOutcome(status, text, PyNone))
     ELSE IF WritesCache(c.args.use_cache, status)
     THEN upsert_select(c1, table, c.loc.repo_full_name, c.loc.org, SuccessBody(text))
     ELSE End(c1, Return(SuccessBody(text)))

(* delete_repository up to its remote request *)
delete_repository(pat, fork_owner, repo) ==
  LET c == [NewCall("deleteFork", [fork_owner |-> fork_owner, repo |-> repo])
              EXCEPT !.pat_reads = 1]
  IN IF pat = "" THEN End(c, Raise("RuntimeError"))
     ELSE Await([c EXCEPT !.remote_calls = 1,
                          !.loc = [request |-> [method |-> "DELETE",
                                                path |-> <<"repos", fork_owner, repo>>]]],
                "delete_http")

(* The DELETE is answered: 204 returns, an error status raises, any other   *)
(* status is logged as a warning and the function falls off its end.        *)
delete_response(c, status, text) ==
  IF status = 204
  THEN End([c EXCEPT !.loc = [status |-> status, log |-> "info"] @@ @], Return(PyNone))
  ELSE IF IsErrorStatus(status)
  THEN End([c EXCEPT !.loc = [status |-> status, log |-> "error"] @@ @],
           ErrorOutcome(status, text, PyStr("Unknown error")))
  ELSE End([c EXCEPT !.loc = [status |-> status, log |-> "warning"] @@ @], Return(PyNone))

(* create_fork up to the first await of its fork_repository call:           *)
(* fork_repository(str(payload.repo_url), payload.org), use_cache left at   *)
(* its default True.                                                        *)
create_fork(table, pat, repo_url, org) ==
  LET o == fork_repository(table, pat, repo_url, org, TRUE)
  IN [o EXCEPT !.c.args = [handler |-> "create_fork"] @@ @]

CreateFork(p, repo_url, org) ==
  /\ Begin(p, create_fork(rows, github_pat, repo_url, org))
  /\ UNCHANGED <<rows, github_pat>>

StartFork(p, repo_url, org, use_cache) ==
  /\ Begin(p, fork_repository(rows, github_pat, repo_url, org, use_cache))
  /\ UNCHANGED <<rows, github_pat>>

ForkResponse(p, status, text) ==
  /\ call[p].pc = "fork_http"
  /\ Apply(p, fork_response(call[p], rows, status, text))
  /\ UNCHANGED <<rows, github_pat, budget>>

(* Mutant of ForkTransportError: the request is sent once more. *)
ForkTransportErrorRetries(p, exc) ==
  /\ call[p].pc = "fork_http"
  /\ Apply(p, IF call[p].remote_calls < 2
              THEN Await([call[p] EXCEPT !.remote_calls = @ + 1], "fork_http")
              ELSE End(call[p], Raise(exc)))
  /\ UNCHANGED <<rows, github_pat, budget>>

(* The POST times out or the transport fails: httpx raises. *)
ForkTransportError(p, exc) ==
  /\ call[p].pc = "fork_http"
  /\ Apply(p, End(call[p], Raise(exc)))
  /\ UNCHANGED <<rows, github_pat, budget>>

StartDeleteFork(p, fork_owner, repo) ==
  /\ Begin(p, delete_repository(github_pat, fork_owner, repo))
  /\ UNCHANGED <<rows, github_pat>>

(* Mutant of DeleteResponse: a deleted fork takes the cache entries of its  *)
(* owner with it.                                                           *)
DeleteResponseEvicts(p, status, text) ==
  /\ call[p].pc = "delete_http"
  /\ Apply(p, delete_response(call[p], status, text))
  /\ rows' = IF status = 204
             THEN {x \in rows : x.org # PyStr(call[p].args.fork_owner)}
             ELSE rows
  /\ UNCHANGED <<github_pat, budget>>

DeleteResponse(p, status, text) ==
  /\ call[p].pc = "delete_http"
  /\ Apply(p, delete_response(call[p], status, text))
  /\ UNCHANGED <<rows, github_pat, budget>>

(* The DELETE times out or the transport fails. *)
DeleteTransportError(p, exc) ==
  /\ call[p].pc = "delete_http"
  /\ Apply(p, End(call[p], Raise(exc)))
  /\ UNCHANGED <<rows, github_pat, budget>>

(* ---------------------------------------------------------------------- *)
Next ==
  \/ \E p \in Procs, r \in Refs, o \in ForkOrgs, u \in BOOLEAN : StartFork(p, r, o, u)
  \/ \E p \in Procs, r \in HttpRefs, o \in CacheOrgs : CreateFork(p, r, o)
  \/ \E p \in Procs, s \in ForkStatuses, x \in Texts : ForkResponse(p, s, x)
  \/ \E p \in Procs, e \in TransportErrors : ForkTransportError(p, e)
  \/ \E p \in Procs : UpsertCommit(p)
  \/ \E p \in Procs : StartDeleteFork(p, org1, widget)
  \/ \E p \in Procs, s \in DeleteStatuses, x \in Texts : DeleteResponse(p, s, x)
  \/ \E p \in Procs, e \in TransportErrors : DeleteTransportError(p, e)
  \/ \E p \in Procs, r \in CacheRepos, o \in CacheOrgs : CacheGet(p, r, o)
  \/ \E p \in Procs, r \in CacheRepos, o \in CacheOrgs : CacheExists(p, r, o)
  \/ \E p \in Procs, r \in CacheRepos, o \in CacheOrgs, v \in CachePayloads :
       StartUpsert(p, r, o, v)
  \/ \E p \in Procs, r \in CacheRepos, o \in CacheOrgs : StartCacheDelete(p, r, o)
  \/ \E p \in Procs : DeleteCommit(p)

Spec == Init /\ [][Next]_vars

(* The same program with one more call to start: the runs of three calls. *)
InitDeep ==
  /\ rows \in InitTables
  /\ github_pat \in Pats
  /\ call = [p \in Procs |-> Idle]
  /\ done = NoDone
  /\ budget = MaxCalls + 1

SpecDeep == InitDeep /\ [][Next]_vars

(* ---------------------------------------------------------------------- *)
(* parse_repo_url on its own.  A reference is put together from a prefix,   *)
(* an owner, a name, a suffix, an optional final "/" and optional           *)
(* surrounding whitespace; the call that has just ended is in done.         *)
(* ---------------------------------------------------------------------- *)
GitlabHttpsPrefix == h_t_t_p \o <<"s">> \o SchemeSep \o gitlab_com \o Slash
GitlabSshPrefix == git_at \o gitlab_com \o <<":">>
DOT_GIT == <<".", "G", "I", "T">>

ParsePrefixes == {HttpsPrefix, HttpPrefix, SshPrefix, GitlabHttpsPrefix, GitlabSshPrefix}
ParseOwners == {acme, <<>>}
ParseNames == {widget, <<>>, widget \o Slash \o acme}
ParseSuffixes == {<<>>, dot_git, DOT_GIT}
ParsePads == {<<>>, <<" ">>}

ParseInputs ==
  [prefix : ParsePrefixes, owner : ParseOwners, name : ParseNames,
   suffix : ParseSuffixes, slash : BOOLEAN, pad : ParsePads]

BuildRef(b) ==
  b.pad \o b.prefix \o b.owner \o Slash \o b.name \o b.suffix
    \o (IF b.slash THEN Slash ELSE <<>>) \o b.pad

InitParse ==
  /\ rows = {}
  /\ github_pat = ""
  /\ call = [p \in Procs |-> Idle]
  /\ done = NoDone
  /\ budget = 0

Parse(b) ==
  /\ done' = [pc |-> "done", op |-> "parse", built |-> b,
              args |-> [repo_url |-> BuildRef(b)],
              result |-> parse_repo_url(BuildRef(b))]
  /\ UNCHANGED <<rows, github_pat, call, budget>>

NextParse == \E b \in ParseInputs : Parse(b)

SpecParse == InitParse /\ [][NextParse]_vars

(* ---------------------------------------------------------------------- *)
(* Reading a step: the call that took it.                                  *)
(* ---------------------------------------------------------------------- *)
(* The call record after the step: the call that ended, or the one slot     *)
(* that changed.                                                            *)
StepAfter == IF done' # NoDone THEN done'
             ELSE call'[CHOOSE p \in Procs : call'[p] # call[p]]

(* Where the call stood before the step *)
Moved == {p \in Procs : call[p] # Idle /\ call'[p] # call[p]}

StepPc == IF Moved = {} THEN "start" ELSE call[CHOOSE p \in Moved : TRUE].pc

IsFork(c) == c.pc \notin {"idle", "none"} /\ c.op = "fork"
Parsed(c) == c.loc # NoLoc

(* ---------------------------------------------------------------------- *)
(* C1: a fork call with use_cache whose cache lookup finds an entry for     *)
(* its key returns the stored payload and issues no remote request.         *)
(* ---------------------------------------------------------------------- *)
C1_CacheHitShortCircuits ==
  [][(StepPc = "start" /\ IsFork(StepAfter) /\ Parsed(StepAfter)
        /\ StepAfter.args.use_cache
        /\ Select(rows, StepAfter.loc.repo_full_name, StepAfter.loc.org) # {})
     => (/\ done' # NoDone
         /\ done'.remote_calls = 0
         /\ \E r \in Select(rows, done'.loc.repo_full_name, done'.loc.org) :
              JsonLoads(r.response_json).ok
              /\ done'.result = Return(JsonLoads(r.response_json).v))]_vars

(* ---------------------------------------------------------------------- *)
(* C2: write-after-success.  The only step of a fork call that changes the  *)
(* table is the commit of the upsert that follows a response with status    *)
(* below 400 in a call with use_cache; a fork call whose remote request     *)
(* failed (error status, timeout, transport failure) has written nothing.   *)
(* ---------------------------------------------------------------------- *)
RemoteFailed(c) ==
  /\ c.remote_calls > 0
  /\ c.result.kind = "raise"
  /\ c.result.exc \in {"HTTPStatusError", "AttributeError"} \cup TransportErrors

C2_WriteAfterSuccess ==
  [][IsFork(StepAfter)
     => /\ rows' # rows => /\ StepPc = "upsert_commit"
                           /\ StepAfter.args.use_cache
                           /\ StepAfter.loc.status < 400
        /\ StepAfter.cache_writes > 0 => /\ StepAfter.args.use_cache
                                         /\ StepAfter.loc.status < 400
        /\ (done' # NoDone /\ RemoteFailed(done'))
             => rows' = rows /\ done'.cache_writes = 0]_vars

C2_Witness ==
  /\ done # NoDone /\ IsFork(done) /\ RemoteFailed(done)
  /\ done.args.use_cache
  /\ done.result.exc = "HTTPStatusError"
  /\ rows # {}

(* ---------------------------------------------------------------------- *)
(* C3: the table holds at most one row per (repo_full_name, org) pair.      *)
(* ---------------------------------------------------------------------- *)
C3_AtMostOneEntryPerKey ==
  \A r1, r2 \in rows :
    (r1.repo_full_name = r2.repo_full_name /\ r1.org = r2.org) => r1 = r2

(* ---------------------------------------------------------------------- *)
(* C4: a fork call whose reference the parser rejects raises ValueError     *)
(* and has issued no remote request, resolved no credential and neither     *)
(* read nor written the cache; no such call is ever in flight.              *)
(* ---------------------------------------------------------------------- *)
Rejected(c) == IsFork(c) /\ ~parse_repo_url(Strip(c.args.repo_url)).ok

C4_InvalidReferenceIsLocal ==
  /\ \A p \in Procs : ~Rejected(call[p])
  /\ Rejected(done) => /\ done.result = Raise("ValueError")
                       /\ done.remote_calls = 0
                       /\ done.pat_reads = 0
                       /\ done.cache_reads = 0
                       /\ done.cache_writes = 0

C4_Witness == Rejected(done) /\ done.args.use_cache /\ rows # {} /\ github_pat # ""

(* ---------------------------------------------------------------------- *)
(* C5: when an upsert for a key has committed, get on that key returns the  *)
(* payload it was given, and the key has one entry: a second upsert         *)
(* replaces the entry of the first.                                         *)
(* ---------------------------------------------------------------------- *)
C5_GetReturnsLastUpsert ==
  [][(StepPc = "upsert_commit" /\ done' # NoDone /\ done'.result.kind = "return")
     => LET u == done'.loc.upsert
        IN /\ get_cached_response(rows', u.repo_full_name, u.org) = Return(u.payload)
           /\ Cardinality(Select(rows', u.repo_full_name, u.org)) = 1]_vars

(* ---------------------------------------------------------------------- *)
(* C6: a step of an upsert, a delete or a fork on key (r, o1) leaves every  *)
(* row of another key as it was, and get on (r, None) returns only a        *)
(* payload stored under org None.                                           *)
(* ---------------------------------------------------------------------- *)
KeyOf(c) == IF c.op = "fork" THEN [r |-> c.loc.repo_full_name, o |-> c.loc.org]
            ELSE [r |-> c.args.repo_full_name, o |-> c.args.org]

C6_OtherOrgsUntouched ==
  [][(StepAfter.op \in {"upsert", "delete", "fork"} /\ Parsed(StepAfter))
     => /\ \A x \in rows \cup rows' :
             (x.repo_full_name # KeyOf(StepAfter).r \/ x.org # KeyOf(StepAfter).o)
               => (x \in rows /\ x \in rows')
        /\ \A r \in CacheRepos :
             LET got == get_cached_response(rows', r, PyNone)
             IN (got.kind = "return" /\ got.value # PyNone)
                  => \E x \in rows' : /\ x.repo_full_name = r /\ x.org = PyNone
                                      /\ JsonLoads(x.response_json).v = got.value]_vars

(* ---------------------------------------------------------------------- *)
(* C7: no step of delete_repository reads or writes the cache; after a      *)
(* successful one, get on every key returns the payload it returned before  *)
(* and a fork with use_cache on that key returns that payload without a     *)
(* remote request.                                                          *)
(* ---------------------------------------------------------------------- *)
DeleteForkSucceeded(c) ==
  c.pc = "done" /\ c.op = "deleteFork" /\ c.result = Return(PyNone) /\ c.loc.status = 204

C7_DeleteForkLeavesCache ==
  [][(StepAfter.op = "deleteFork")
     => /\ rows' = rows
        /\ StepAfter.cache_reads = 0
        /\ StepAfter.cache_writes = 0
        /\ DeleteForkSucceeded(StepAfter)
             => \A o \in ForkOrgs :
                  LET before == get_cached_response(rows, acme_widget, NormalizeOrg(o))
                      fork == fork_repository(rows', github_pat', RefSsh, o, TRUE)
                  IN (before.kind = "return" /\ before.value # PyNone)
                       => /\ get_cached_response(rows', acme_widget, NormalizeOrg(o)) = before
                          /\ fork.at = "done"
                          /\ fork.r = before
                          /\ fork.c.remote_calls = 0]_vars

C7_Witness ==
  /\ DeleteForkSucceeded(done)
  /\ \E x \in rows : /\ x.org = PyStr(done.args.fork_owner)
                     /\ get_cached_response(rows, x.repo_full_name, x.org)
                          = Return(JsonLoads(x.response_json).v)
                     /\ JsonLoads(x.response_json).v # PyNone

(* ---------------------------------------------------------------------- *)
(* C8: delete_repository ends in one of three outcomes a caller can tell    *)
(* apart: status 204 returns, a status of 400 or more raises                *)
(* HTTPStatusError with that status, any other status neither raises nor    *)
(* gives the result of a 204.                                               *)
(* ---------------------------------------------------------------------- *)
Answered(c, name) == c.pc = "done" /\ c.op = name /\ "status" \in DOMAIN c.loc

C8_DeleteOutcomesDistinct ==
  Answered(done, "deleteFork")
  => /\ done.loc.status = 204 => done.result = Return(PyNone)
     /\ done.loc.status >= 400 => /\ done.result.kind = "raise"
                                  /\ done.result.exc = "HTTPStatusError"
                                  /\ done.result.status_code = done.loc.status
     /\ (done.loc.status < 400 /\ done.loc.status # 204)
          => /\ done.result.kind # "raise"
             /\ done.result # Return(PyNone)

(* ---------------------------------------------------------------------- *)
(* C9: a fork call that got a response raises HTTPStatusError with the      *)
(* status and the extracted message when the status is 400 or more (the     *)
(* raw text when the body is no JSON), and otherwise returns the parsed     *)
(* body, or {"message": "<non-json-response>"} when the body is no JSON.    *)
(* ---------------------------------------------------------------------- *)
C9_ForkErrorMapping ==
  Answered(done, "fork")
  => /\ done.loc.status >= 400
          => /\ done.result.kind = "raise"
             /\ done.result.exc = "HTTPStatusError"
             /\ done.result.status_code = done.loc.status
             /\ done.loc.text = T_msg => done.result.detail = "already forked"
             /\ done.loc.text = T_html => done.result.detail = T_html
     /\ done.loc.status < 400
          => /\ done.result.kind = "return"
             /\ done.loc.text = T_msg => done.result.value = V_msg
             /\ done.loc.text = T_id => done.result.value = V_id
             /\ done.loc.text = T_null => done.result.value = PyNone
             /\ done.loc.text = T_html => done.result.value = V_placeholder

(* ---------------------------------------------------------------------- *)
(* C10: a fork call whose org is empty or only whitespace is a fork call    *)
(* with no org: its cache key has org None and its request names no         *)
(* organization.                                                            *)
(* ---------------------------------------------------------------------- *)
Blank(org) == org = PyNone \/ Strip(org.s) = <<>>

NoOrg(c) ==
  (IsFork(c) /\ Parsed(c) /\ Blank(c.args.org))
  => /\ c.loc.org = PyNone
     /\ "request" \in DOMAIN c.loc => c.loc.request.json = PyNone

C10_BlankOrgIsAbsent == NoOrg(done) /\ \A p \in Procs : NoOrg(call[p])

(* ---------------------------------------------------------------------- *)
(* C11: create_fork answers by the kind of failure of its fork call: a      *)
(* rejected reference (ValueError) gives a 4xx response, every other        *)
(* failure (no credential, error status, timeout or transport failure,      *)
(* storage failure) a 5xx response, and the response is {status: ok, data}  *)
(* exactly when fork_repository returned, with data the value it returned.  *)
(* ---------------------------------------------------------------------- *)
Handled(c) == c.pc = "done" /\ ViaHandler(c)

C11_CreateForkMapsByErrorType ==
  Handled(done)
  => /\ Rejected(done) => done.response.status_code \in 400..499
     /\ (done.result.kind = "raise" /\ ~Rejected(done))
          => done.response.status_code \in 500..599
     /\ done.result.kind = "return"
          => done.response = [status_code |-> 200, status |-> "ok",
                               data |-> done.result.value]
     /\ done.response.status_code = 200 => done.result.kind = "return"

C11_Witness ==
  /\ Handled(done)
  /\ done.result.kind = "raise"
  /\ done.result.exc = "IntegrityError"
  /\ done.response.status_code = 502

(* ---------------------------------------------------------------------- *)
(* C12: a reference in one of the three accepted forms (https, http,        *)
(* git@host:) for owner acme and name widget, with or without ".git" and,   *)
(* for the two URL forms, with or without a final "/", parses to            *)
(* (acme, widget); a reference on another host, and one whose path has no   *)
(* owner, no name or a third segment, is not parsed.                        *)
(* ---------------------------------------------------------------------- *)
ParsedCall(c) == c.pc = "done" /\ c.op = "parse"

AcceptedForm(b) ==
  /\ b.prefix \in {HttpsPrefix, HttpPrefix, SshPrefix}
  /\ b.owner = acme
  /\ b.name = widget
  /\ b.suffix \in {<<>>, dot_git}
  /\ b.slash => b.prefix # SshPrefix
  /\ b.pad = <<>>

OtherHost(b) == b.prefix \in {GitlabHttpsPrefix, GitlabSshPrefix}

MalformedPath(b) ==
  \/ b.owner = <<>>
  \/ b.name = <<>> /\ b.suffix = <<>>
  \/ b.name = widget \o Slash \o acme

C12_ParserRoundTrip ==
  ParsedCall(done)
  => /\ AcceptedForm(done.built)
          => done.result = [ok |-> TRUE, owner |-> acme, repo |-> widget]
     /\ (OtherHost(done.built) \/ MalformedPath(done.built)) => done.result = NotParsed

C12_Witness ==
  /\ ParsedCall(done)
  /\ AcceptedForm(done.built)
  /\ done.built.prefix = HttpPrefix /\ done.built.suffix = dot_git /\ done.built.slash
  /\ done.result.ok /\ done.result.repo = widget

(* ---------------------------------------------------------------------- *)
(* C19: every identifier parse returns has a non-empty owner and a          *)
(* non-empty name after the ".git" suffix is stripped; a reference whose    *)
(* name is just ".git" is not parsed.                                       *)
(* ---------------------------------------------------------------------- *)
C19_ParsedNameNonEmpty ==
  (ParsedCall(done) /\ done.result.ok)
  => done.result.owner # <<>> /\ done.result.repo # <<>>

(* ---------------------------------------------------------------------- *)
(* C13: nothing serialises fork calls on one key.  A fork call with         *)
(* use_cache whose lookup misses issues its remote request whatever other   *)
(* calls are in flight, and when its request is answered with a status      *)
(* below 400 it runs the upsert of (key, body), again whatever other calls  *)
(* are doing; two remote requests for one key are in flight together.       *)
(* ---------------------------------------------------------------------- *)
C13_NoSingleFlight ==
  [][/\ (/\ StepPc = "start" /\ IsFork(StepAfter) /\ Parsed(StepAfter)
         /\ StepAfter.args.use_cache
         /\ get_cached_response(rows, StepAfter.loc.repo_full_name, StepAfter.loc.org)
              = Return(PyNone)
         /\ github_pat # "")
        => (/\ done' = NoDone
            /\ StepAfter.pc = "fork_http"
            /\ StepAfter.remote_calls = 1)
     /\ (/\ StepPc = "fork_http" /\ IsFork(StepAfter)
         /\ StepAfter.args.use_cache
         /\ "status" \in DOMAIN StepAfter.loc
         /\ StepAfter.loc.status < 400)
        => (/\ "upsert" \in DOMAIN StepAfter.loc
            /\ StepAfter.loc.upsert.repo_full_name = StepAfter.loc.repo_full_name
            /\ StepAfter.loc.upsert.org = StepAfter.loc.org
            /\ StepAfter.loc.upsert.payload = SuccessBody(StepAfter.loc.text)
            /\ StepAfter.cache_reads = 2)]_vars

C13_Witness ==
  /\ call[1].pc = "fork_http" /\ call[2].pc = "fork_http"
  /\ call[1].args.use_cache /\ call[2].args.use_cache
  /\ KeyOf(call[1]) = KeyOf(call[2])
  /\ call[1].remote_calls = 1 /\ call[2].remote_calls = 1

(* ---------------------------------------------------------------------- *)
(* C14: a key enters the table only by the commit of an upsert or of a      *)
(* fork on that key and leaves it only by the commit of a delete on that    *)
(* key; a delete call returns True exactly when its step removed an entry   *)
(* of its key, and when it returns False the table is as it was.            *)
(* ---------------------------------------------------------------------- *)
Keys(table) == {[r |-> x.repo_full_name, o |-> x.org] : x \in table}

C14_EntryLifecycle ==
  [][/\ \A k \in Keys(rows') \ Keys(rows) :
          /\ StepPc = "upsert_commit"
          /\ StepAfter.op \in {"upsert", "fork"}
          /\ KeyOf(StepAfter) = k
     /\ \A k \in Keys(rows) \ Keys(rows') :
          /\ StepPc = "delete_commit"
          /\ StepAfter.op = "delete"
          /\ KeyOf(StepAfter) = k
     /\ (done' # NoDone /\ done'.op = "delete" /\ done'.result.kind = "return")
          => /\ done'.result.value = PyBool(TRUE)
                  <=> (KeyOf(done') \in Keys(rows) \ Keys(rows'))
             /\ done'.result.value = PyBool(FALSE) => rows' = rows]_vars

(* ---------------------------------------------------------------------- *)
(* C15: an upsert that found an entry for its key and returned has left     *)
(* the entry's created_at as it was and has moved its updated_at forward,   *)
(* for a payload equal to the stored one as for any other; no step changes  *)
(* the created_at of a row.                                                 *)
(* ---------------------------------------------------------------------- *)
C15_UpsertRefreshesUpdatedAt ==
  [][/\ (/\ StepPc = "upsert_commit"
         /\ done' # NoDone /\ done'.result.kind = "return"
         /\ done'.loc.upsert.entry # NoEntry)
        => \A x \in rows :
             x.id = done'.loc.upsert.entry.id
               => \E y \in rows' : /\ y.id = x.id
                                   /\ y.created_at = x.created_at
                                   /\ y.updated_at > x.updated_at
     /\ \A x \in rows, y \in rows' : x.id = y.id => y.created_at = x.created_at]_vars

(* ---------------------------------------------------------------------- *)
(* C16: a fork call with use_cache False takes no step that reads or        *)
(* writes the cache or changes the table; with a parseable reference it     *)
(* goes on to the credential and the remote request whatever the table      *)
(* holds for its key, and is never answered from the cache.                 *)
(* ---------------------------------------------------------------------- *)
C16_NoCacheWhenDisabled ==
  [][(IsFork(StepAfter) /\ ~StepAfter.args.use_cache)
     => /\ rows' = rows
        /\ StepAfter.cache_reads = 0
        /\ StepAfter.cache_writes = 0
        /\ (StepPc = "start" /\ Parsed(StepAfter))
             => IF github_pat # ""
                THEN /\ done' = NoDone
                     /\ StepAfter.pc = "fork_http"
                     /\ StepAfter.remote_calls = 1
                ELSE done'.result = Raise("RuntimeError")]_vars

C16_Witness ==
  /\ IsFork(done) /\ ~done.args.use_cache
  /\ done.result.kind = "return"
  /\ done.remote_calls = 1
  /\ \E x \in Select(rows, done.loc.repo_full_name, done.loc.org) :
       /\ JsonLoads(x.response_json).v # PyNone
       /\ JsonLoads(x.response_json).v # done.result.value

(* ---------------------------------------------------------------------- *)
(* C17: get_github_pat is called only after the cache lookup has missed or  *)
(* in a call that does not use the cache.  With no GITHUB_PAT, a fork whose *)
(* lookup returns a payload returns it, and a fork whose lookup misses, a   *)
(* fork without use_cache and every delete_repository raise RuntimeError    *)
(* with no request issued and the table unchanged.                          *)
(* ---------------------------------------------------------------------- *)
Lookup(c) == get_cached_response(rows, c.loc.repo_full_name, c.loc.org)

C17_CredentialAfterMiss ==
  [][/\ (StepPc = "start" /\ IsFork(StepAfter) /\ Parsed(StepAfter))
        => /\ (/\ StepAfter.args.use_cache
                /\ Lookup(StepAfter).kind = "return"
                /\ Lookup(StepAfter).value # PyNone)
               => (/\ done' # NoDone
                   /\ done'.result = Lookup(StepAfter)
                   /\ done'.pat_reads = 0
                   /\ done'.remote_calls = 0)
           /\ StepAfter.pat_reads > 0
               => (~StepAfter.args.use_cache
                     \/ (StepAfter.cache_reads = 1 /\ Lookup(StepAfter) = Return(PyNone)))
           /\ (/\ github_pat = ""
                /\ (~StepAfter.args.use_cache \/ Lookup(StepAfter) = Return(PyNone)))
               => (/\ done' # NoDone
                   /\ done'.result = Raise("RuntimeError")
                   /\ done'.remote_calls = 0
                   /\ rows' = rows)
     /\ (StepPc = "start" /\ StepAfter.op = "deleteFork" /\ github_pat = "")
        => (/\ done' # NoDone
            /\ done'.result = Raise("RuntimeError")
            /\ done'.remote_calls = 0
            /\ rows' = rows)]_vars

C17_Witness ==
  /\ github_pat = ""
  /\ IsFork(done) /\ done.args.use_cache
  /\ done.result.kind = "return"
  /\ done.result.value # PyNone
  /\ done.pat_reads = 0

(* ---------------------------------------------------------------------- *)
(* C18: no retry.  No call issues more than one remote request; the step    *)
(* in which a request fails (timeout, transport failure, status of 400 or   *)
(* more) ends the call by raising, the transport exception itself or an     *)
(* error for the status, and leaves the table as it was.                    *)
(* ---------------------------------------------------------------------- *)
C18_NoRetry ==
  [][/\ \A p \in Procs : call'[p] # Idle => call'[p].remote_calls <= 1
     /\ done' # NoDone => done'.remote_calls <= 1
     /\ (StepPc \in {"fork_http", "delete_http"}
          /\ ("status" \in DOMAIN StepAfter.loc => StepAfter.loc.status >= 400))
        => (/\ done' # NoDone
            /\ done'.remote_calls = 1
            /\ done'.result.kind = "raise"
            /\ "status" \notin DOMAIN done'.loc => done'.result.exc \in TransportErrors
            /\ done'.result.exc = "HTTPStatusError"
                 => done'.result.status_code = done'.loc.status
            /\ rows' = rows)]_vars

C18_Witness ==
  /\ IsFork(done)
  /\ done.result.kind = "raise"
  /\ done.result.exc = "TimeoutException"
  /\ done.remote_calls = 1

(* ---------------------------------------------------------------------- *)
(* C20: of two fork calls with use_cache on one key that were in flight     *)
(* together, the one that commits its upsert second, right after the first  *)
(* returned, returns the body of its own response as well, and the table    *)
(* then holds the body of one of the two under the key.                     *)
(* ---------------------------------------------------------------------- *)
C20_UpsertNeverFailsFork ==
  [][(/\ StepPc = "upsert_commit"
      /\ IsFork(StepAfter) /\ StepAfter.args.use_cache
      /\ IsFork(done) /\ done.args.use_cache
      /\ "upsert" \in DOMAIN done.loc
      /\ done.result.kind = "return"
      /\ KeyOf(done) = KeyOf(StepAfter))
     => (/\ done' # NoDone
         /\ done'.result = Return(SuccessBody(done'.loc.text))
         /\ \E x \in Select(rows', done'.loc.repo_full_name, done'.loc.org) :
              x.response_json \in {done.loc.upsert.data, done'.loc.upsert.data})]_vars

====
